---- MODULE Spec2Model ----
(***************************************************************************)
(* Model of the log parser of AlexShmak/logs_parser: Parser (src/parser.py)*)
(* fed line by line by main (src/main.py).                                 *)
(*                                                                         *)
(* Text is modelled as sequences of one-character strings, so that         *)
(* str.split, str.strip, float() and IPv4Address() are computed and not    *)
(* assumed.  A log line is modelled by what the code can observe of it:    *)
(* the three guard substrings, the result of each regular expression       *)
(* search (its named groups) and the bracketed timestamp.                  *)
(*                                                                         *)
(* Millisecond values are kept in tenths of a millisecond (the inputs of   *)
(* the model have at most one fractional digit, .0 or .5, which binary     *)
(* floating point represents exactly).  A datetime is the number of        *)
(* seconds since 2000-01-01 00:00:00; Python's None is NoTime for a        *)
(* datetime and NoMatch for a regular expression search.                   *)
(***************************************************************************)
EXTENDS Integers, Sequences, FiniteSets, TLC

\* Bounds of the model.
MaxLines == 3
MaxQueryId == 2

NoTime == -1
NoMatch == [matched |-> FALSE]

Min(S) == CHOOSE x \in S : \A y \in S : x <= y
Max(S) == CHOOSE x \in S : \A y \in S : x >= y

----------------------------------------------------------------------------
(* Text primitives.                                                        *)

Digits == {"0", "1", "2", "3", "4", "5", "6", "7", "8", "9"}

DigitVal(c) ==
    CASE c = "0" -> 0 [] c = "1" -> 1 [] c = "2" -> 2 [] c = "3" -> 3
      [] c = "4" -> 4 [] c = "5" -> 5 [] c = "6" -> 6 [] c = "7" -> 7
      [] c = "8" -> 8 [] c = "9" -> 9

\* int() of a non-empty sequence of decimal digits.
RECURSIVE IntOf(_)
IntOf(s) ==
    IF s = <<>> THEN 0
    ELSE 10 * IntOf(SubSeq(s, 1, Len(s) - 1)) + DigitVal(s[Len(s)])

\* str.split(sep): the pieces between the occurrences of sep.
RECURSIVE Split(_, _)
Split(s, sep) ==
    LET idx == {i \in 1..Len(s) : s[i] = sep}
    IN  IF idx = {} THEN <<s>>
        ELSE LET i == Min(idx)
             IN  <<SubSeq(s, 1, i - 1)>> \o Split(SubSeq(s, i + 1, Len(s)), sep)

\* str.split(sep, 1)[0]: the text before the first sep.
BeforeFirst(s, sep) ==
    LET idx == {i \in 1..Len(s) : s[i] = sep}
    IN  IF idx = {} THEN s ELSE SubSeq(s, 1, Min(idx) - 1)

\* str.strip(): without leading and trailing whitespace.
Strip(s) ==
    LET idx == {i \in 1..Len(s) : s[i] # " "}
    IN  IF idx = {} THEN <<>> ELSE SubSeq(s, Min(idx), Max(idx))

\* A count of the characters instead of the words.
WordCount_chars(s) == Len(s)

\* len(str.split()): the number of maximal runs of non-whitespace.
WordCount(s) ==
    Cardinality({i \in 1..Len(s) : s[i] # " " /\ (i = 1 \/ s[i - 1] = " ")})

\* float(): the value in tenths of a millisecond, or ValueError.
ValueError == -1
ParseFloat(s) ==
    LET parts == Split(s, ".")
        digits == {i \in 1..Len(s) : s[i] \in Digits}
    IN  IF Len(parts) > 2 \/ digits = {} THEN ValueError
        ELSE IF Len(parts) = 1 THEN 10 * IntOf(parts[1])
        ELSE 10 * IntOf(parts[1])
             + (IF parts[2] = <<>> THEN 0 ELSE DigitVal(parts[2][1]))

\* One octet of ipaddress.IPv4Address: 1 to 3 decimal digits, no leading
\* zero, at most 255.
ValidOctet(o) ==
    /\ Len(o) \in 1..3
    /\ \A i \in 1..Len(o) : o[i] \in Digits
    /\ (Len(o) > 1 => o[1] # "0")
    /\ IntOf(o) <= 255

\* A validation that forgets the range of an octet.
_is_valid_ipv4_no_range(raw) ==
    LET octets == Split(raw, ".")
    IN  /\ Len(octets) = 4
        /\ \A i \in 1..4 :
              /\ octets[i] # <<>>
              /\ \A j \in 1..Len(octets[i]) : octets[i][j] \in Digits

_is_valid_ipv4(raw) ==
    LET octets == Split(raw, ".")
    IN  /\ Len(octets) = 4
        /\ \A i \in 1..4 : ValidOctet(octets[i])

\* An extraction that validates the address and returns the whole token.
_extract_ip_keep_port(raw) ==
    IF _is_valid_ipv4(BeforeFirst(raw, ":")) THEN raw ELSE <<>>

\* The address of a token, or <<>> for Python's None (no address is empty).
_extract_ip(raw) ==
    IF \E i \in 1..Len(raw) : raw[i] = ":"
    THEN IF _is_valid_ipv4(BeforeFirst(raw, ":")) THEN BeforeFirst(raw, ":") ELSE <<>>
    ELSE IF _is_valid_ipv4(raw) THEN raw ELSE <<>>

\* datetime.strptime of the groups of INTERNAL_TIMESTAMP, the year being
\* 2000 + yy: seconds since 2000-01-01, or ValueError for no such date.
DaysInMonth(mm, yy) ==
    CASE mm \in {1, 3, 5, 7, 8, 10, 12} -> 31
      [] mm \in {4, 6, 9, 11} -> 30
      [] mm = 2 -> IF yy % 4 = 0 THEN 29 ELSE 28
      [] OTHER -> 0

RECURSIVE DaysBeforeMonth(_, _)
DaysBeforeMonth(mm, yy) ==
    IF mm <= 1 THEN 0 ELSE DaysBeforeMonth(mm - 1, yy) + DaysInMonth(mm - 1, yy)

Strptime(g) ==
    IF \/ g.mm \notin 1..12
       \/ g.dd \notin 1..DaysInMonth(g.mm, g.yy)
       \/ g.h \notin 0..23 \/ g.mi \notin 0..59 \/ g.s \notin 0..59
    THEN ValueError
    ELSE (g.yy * 365 + (g.yy + 3) \div 4 + DaysBeforeMonth(g.mm, g.yy) + g.dd - 1)
             * 86400
         + g.h * 3600 + g.mi * 60 + g.s

\* An extraction that answers the epoch for a line without a timestamp.
_extract_internal_timestamp_epoch(l) ==
    IF l.INTERNAL_TIMESTAMP.matched THEN Strptime(l.INTERNAL_TIMESTAMP) ELSE 0

_extract_internal_timestamp(l) ==
    IF l.INTERNAL_TIMESTAMP.matched THEN Strptime(l.INTERNAL_TIMESTAMP) ELSE NoTime

----------------------------------------------------------------------------
(* The input: the lines a log file can hold.                               *)

ConnIds == {"a", "b"}
QueryIds == 1..MaxQueryId

\* raw_ip_port tokens: an address with a port, a bare address, a token
\* whose last octet is out of range, a host name with a port.
TokIpPort == <<"1", ".", "2", ".", "3", ".", "4", ":", "8">>
TokIp == <<"5", ".", "6", ".", "7", ".", "8">>
TokBadOctet == <<"1", ".", "2", ".", "3", ".", "2", "5", "6", ":", "8">>
TokHost == <<"h", ":", "8">>
Tokens == {TokIpPort, TokIp, TokBadOctet, TokHost}

\* text_decoded: one word, two words with surrounding blanks, blanks only.
Texts == {<<"x">>, <<" ", "y", " ", "z", " ">>, <<" ">>}

\* [DD.MM.YY HH:MM:SS] groups: two instants 10 s apart and the 31st of
\* February, which the pattern accepts and strptime rejects.
Stamp(d, m, y, hh, mi, ss) ==
    [matched |-> TRUE, dd |-> d, mm |-> m, yy |-> y, h |-> hh, mi |-> mi, s |-> ss]
StampA == Stamp(1, 11, 26, 10, 0, 0)
StampB == Stamp(1, 11, 26, 10, 0, 10)
StampBad == Stamp(31, 2, 26, 10, 0, 0)

\* time_total_ms, time_working_ms and timestamp of the End lines.
EndPayloads ==
    { <<(<<"1", "0">>), (<<"2", ".", "5">>), StampA>>,
      <<(<<"3", "0">>), (<<"1">>), StampB>>,
      <<(<<"2", "0">>), (<<"2", "0">>), NoMatch>>,
      <<(<<"1", ".", "2", ".", "3">>), (<<"1">>), StampA>>,
      <<(<<"1", "0">>), (<<".">>), StampA>>,
      <<(<<"1", "0">>), (<<"2", ".", "5">>), StampBad>> }

GIncoming == "Incoming Conn{"
GOnConn == "On Conn{"
GEndQuery == "End Query{"

ConnMatch(c, t) == [matched |-> TRUE, conn_hex_id |-> c, raw_ip_port |-> t]
NewQueryMatch(c, q, t) ==
    [matched |-> TRUE, conn_hex_id |-> c, query_id |-> q, text_decoded |-> t]
EndMatch(q, tot, work) ==
    [matched |-> TRUE, query_id |-> q, time_total_ms |-> tot, time_working_ms |-> work]

Line(g, c, n, e, t) ==
    [guards |-> g, CONNECTION |-> c, NEW_QUERY |-> n, END |-> e,
     INTERNAL_TIMESTAMP |-> t]

ConnLines ==
    {Line({GIncoming}, ConnMatch(c, t), NoMatch, NoMatch, NoMatch) :
        c \in ConnIds, t \in Tokens}
NewQueryLines ==
    {Line({GOnConn}, NoMatch, NewQueryMatch(c, q, t), NoMatch, NoMatch) :
        c \in ConnIds, q \in QueryIds, t \in Texts}
EndLines ==
    {Line({GEndQuery}, NoMatch, NoMatch, EndMatch(q, p[1], p[2]), p[3]) :
        q \in QueryIds, p \in EndPayloads}
\* Lines no pattern matches: no cue at all, or a cue on a truncated line.
UnmatchedLines ==
    {Line(g, NoMatch, NoMatch, NoMatch, NoMatch) :
        g \in {{}, {GIncoming}, {GOnConn}, {GEndQuery}}}
\* Lines with the cue of one category and the full shape of another.
MixedLines ==
    { Line({GIncoming, GOnConn}, NoMatch,
           NewQueryMatch("a", 1, <<"x">>), NoMatch, NoMatch),
      Line({GOnConn, GEndQuery}, NoMatch, NoMatch,
           EndMatch(1, <<"3", "0">>, <<"1">>), StampB),
      Line({GIncoming, GOnConn}, ConnMatch("b", TokIp),
           NewQueryMatch("b", 1, <<"x">>), NoMatch, NoMatch) }

Lines == ConnLines \cup NewQueryLines \cup EndLines \cup UnmatchedLines \cup MixedLines

----------------------------------------------------------------------------
(* State.                                                                  *)

VARIABLES
    pc,          \* where main is: "start", "parse", "report", "metrics",
                 \* "done", "nofile" or "crashed" (uncaught exception)
    raised,      \* the statement the uncaught exception came from, or ""
    nlines,      \* lines of the file read so far
    line,        \* the loop variable of parse
    outcome,     \* the path the last line took through its handler
    connections, query_to_ip, request_freq, total_words,
    all_ips, invalid_ips, first_end_time, last_end_time,
    total_time_working_ms, total_time_with_waiting_ms,
    max_handling_time_working_ms, max_handling_time_with_waiting_ms,
    new_query_ids, finished_query_ids,
    first_start, \* history: the first-seen start lines, in arrival order
    first_end    \* history: query id -> its first-seen end line

conn_state == <<connections, all_ips, invalid_ips>>
start_state == <<request_freq, total_words, new_query_ids, query_to_ip>>
end_state ==
    <<total_time_working_ms, total_time_with_waiting_ms,
      max_handling_time_working_ms, max_handling_time_with_waiting_ms,
      first_end_time, last_end_time, finished_query_ids>>
parser_state == <<conn_state, start_state, end_state>>
history == <<first_start, first_end>>
vars == <<pc, raised, nlines, line, outcome, parser_state, history>>

NoLine == Line({}, NoMatch, NoMatch, NoMatch, NoMatch)
EmptyMap == [x \in {} |-> <<>>]

Init ==
    /\ pc = "start"
    /\ raised = ""
    /\ nlines = 0
    /\ line = NoLine
    /\ outcome = ""
    /\ connections = EmptyMap
    /\ query_to_ip = EmptyMap
    /\ request_freq = <<>>
    /\ total_words = 0
    /\ all_ips = {}
    /\ invalid_ips = {}
    /\ first_end_time = NoTime
    /\ last_end_time = NoTime
    /\ total_time_working_ms = 0
    /\ total_time_with_waiting_ms = 0
    /\ max_handling_time_working_ms = 0
    /\ max_handling_time_with_waiting_ms = 0
    /\ new_query_ids = {}
    /\ finished_query_ids = {}
    /\ first_start = <<>>
    /\ first_end = EmptyMap

\* A store that keeps the value a key already has.
Put_keep(f, k, v) == [x \in DOMAIN f \cup {k} |-> IF x \in DOMAIN f THEN f[x] ELSE v]

\* A store that forgets the other keys.
Put_only(f, k, v) == [x \in {k} |-> v]

\* dict[key] = value
Put(f, k, v) == [x \in DOMAIN f \cup {k} |-> IF x = k THEN v ELSE f[x]]

----------------------------------------------------------------------------
(* Parser: the handlers of a line.                                         *)

\* A dispatch that stops at the first cue found in the line.
Dispatch_first_cue(l) ==
    IF GIncoming \in l.guards
    THEN (IF l.CONNECTION.matched THEN "conn" ELSE "none")
    ELSE IF GOnConn \in l.guards
    THEN (IF l.NEW_QUERY.matched THEN "nq" ELSE "none")
    ELSE IF GEndQuery \in l.guards /\ l.END.matched THEN "end"
    ELSE "none"

\* parse: the handler that takes the line.  A handler is tried when its cue
\* is in the line, and the line goes to the next one when it returns False.
Dispatch(l) ==
    IF GIncoming \in l.guards /\ l.CONNECTION.matched THEN "conn"
    ELSE IF GOnConn \in l.guards /\ l.NEW_QUERY.matched THEN "nq"
    ELSE IF GEndQuery \in l.guards /\ l.END.matched THEN "end"
    ELSE "none"

\* A registration that keeps the whole token in the table for a valid address.
_parse_connection_raw_value(l) ==
    LET conn_hex_id == l.CONNECTION.conn_hex_id
        raw_ip_port == l.CONNECTION.raw_ip_port
        ip == _extract_ip(raw_ip_port)
    IN  /\ IF ip # <<>>
           THEN /\ all_ips' = all_ips \cup {ip}
                /\ outcome' = "conn_valid"
                /\ UNCHANGED invalid_ips
           ELSE /\ invalid_ips' = invalid_ips \cup {raw_ip_port}
                /\ outcome' = "conn_invalid"
                /\ UNCHANGED all_ips
        /\ connections' =
               [x \in DOMAIN connections \cup {conn_hex_id} |->
                   IF x = conn_hex_id THEN raw_ip_port ELSE connections[x]]
        /\ UNCHANGED <<pc, raised, start_state, end_state, history>>

_parse_connection(l) ==
    LET conn_hex_id == l.CONNECTION.conn_hex_id
        raw_ip_port == l.CONNECTION.raw_ip_port
        ip == _extract_ip(raw_ip_port)
    IN  /\ IF ip # <<>>
           THEN /\ all_ips' = all_ips \cup {ip}
                /\ connections' = Put(connections, conn_hex_id, ip)
                /\ outcome' = "conn_valid"
                /\ UNCHANGED invalid_ips
           ELSE /\ invalid_ips' = invalid_ips \cup {raw_ip_port}
                /\ connections' = Put(connections, conn_hex_id, raw_ip_port)
                /\ outcome' = "conn_invalid"
                /\ UNCHANGED all_ips
        /\ UNCHANGED <<pc, raised, start_state, end_state, history>>

\* request_freq[text] = request_freq.get(text, 0) + 1, on a dict that keeps
\* its keys in insertion order.
Increment(freq, text) ==
    IF \E i \in 1..Len(freq) : freq[i].text = text
    THEN [i \in 1..Len(freq) |->
            IF freq[i].text = text
            THEN [text |-> text, count |-> freq[i].count + 1]
            ELSE freq[i]]
    ELSE Append(freq, [text |-> text, count |-> 1])

\* A start line for an id not seen before: lines 84-96.
RecordStart(l) ==
    LET query_id == l.NEW_QUERY.query_id
        text_decoded == Strip(l.NEW_QUERY.text_decoded)
        conn_hex_id == l.NEW_QUERY.conn_hex_id
    IN  /\ outcome' = "nq_first"
        /\ new_query_ids' = new_query_ids \cup {query_id}
        /\ first_start' =
               IF \E i \in 1..Len(first_start) :
                      first_start[i].NEW_QUERY.query_id = query_id
               THEN first_start ELSE Append(first_start, l)
        /\ IF conn_hex_id \in DOMAIN connections
           THEN query_to_ip' = Put(query_to_ip, query_id, connections[conn_hex_id])
           ELSE UNCHANGED query_to_ip
        /\ IF text_decoded # <<>>
           THEN /\ request_freq' = Increment(request_freq, text_decoded)
                /\ total_words' = total_words + WordCount(text_decoded)
           ELSE UNCHANGED <<request_freq, total_words>>
        /\ UNCHANGED <<pc, raised, conn_state, end_state, first_end>>

_parse_new_query_recount(l) == RecordStart(l)

\* A handler that links a repeated id again, to its line's connection.
_parse_new_query_relink(l) ==
    IF l.NEW_QUERY.query_id \in new_query_ids
    THEN /\ outcome' = "nq_dup"
         /\ IF l.NEW_QUERY.conn_hex_id \in DOMAIN connections
            THEN query_to_ip' =
                   [x \in DOMAIN query_to_ip \cup {l.NEW_QUERY.query_id} |->
                       IF x = l.NEW_QUERY.query_id
                       THEN connections[l.NEW_QUERY.conn_hex_id] ELSE query_to_ip[x]]
            ELSE UNCHANGED query_to_ip
         /\ UNCHANGED <<pc, raised, conn_state, end_state, history,
                        request_freq, total_words, new_query_ids>>
    ELSE RecordStart(l)

_parse_new_query(l) ==
    IF l.NEW_QUERY.query_id \in new_query_ids
    THEN /\ outcome' = "nq_dup"
         /\ UNCHANGED <<pc, raised, parser_state, history>>
    ELSE RecordStart(l)

\* A maximum that keeps the last value read.
NewMax_last(value, max) == value

\* if value > max: max = value
NewMax(value, max) == IF value > max THEN value ELSE max
\* A first timestamp that is the one read last.
Earliest_last(ts, first) == ts

\* if first is None or ts < first: first = ts
Earliest(ts, first) == IF first = NoTime \/ ts < first THEN ts ELSE first
\* if last is None or ts > last: last = ts
Latest(ts, last) == IF last = NoTime \/ ts > last THEN ts ELSE last

\* An end line for an id not seen before: lines 107-127.
RecordEnd(l) ==
    LET query_id == l.END.query_id
        time_total_ms == ParseFloat(l.END.time_total_ms)
        time_working_ms == ParseFloat(l.END.time_working_ms)
        ts == _extract_internal_timestamp(l)
    IN  /\ UNCHANGED <<conn_state, start_state, first_start>>
        /\ finished_query_ids' = finished_query_ids \cup {query_id}
        /\ first_end' = IF query_id \in DOMAIN first_end THEN first_end
                        ELSE Put(first_end, query_id, l)
        /\ IF time_total_ms = ValueError \/ time_working_ms = ValueError
           THEN \* float() raises: the exception leaves parse and main
                /\ pc' = "crashed"
                /\ raised' = "float"
                /\ outcome' = "end_raise"
                /\ UNCHANGED <<total_time_working_ms, total_time_with_waiting_ms,
                               max_handling_time_working_ms,
                               max_handling_time_with_waiting_ms,
                               first_end_time, last_end_time>>
           ELSE /\ total_time_with_waiting_ms' =
                       total_time_with_waiting_ms + time_total_ms
                /\ total_time_working_ms' = total_time_working_ms + time_working_ms
                /\ max_handling_time_with_waiting_ms' =
                       NewMax(time_total_ms, max_handling_time_with_waiting_ms)
                /\ max_handling_time_working_ms' =
                       NewMax(time_working_ms, max_handling_time_working_ms)
                /\ IF l.INTERNAL_TIMESTAMP.matched /\ ts = ValueError
                   THEN \* strptime raises
                        /\ pc' = "crashed"
                        /\ raised' = "strptime"
                        /\ outcome' = "end_raise"
                        /\ UNCHANGED <<first_end_time, last_end_time>>
                   ELSE /\ outcome' = "end_first"
                        /\ UNCHANGED <<pc, raised>>
                        /\ IF ts # NoTime
                           THEN /\ first_end_time' = Earliest(ts, first_end_time)
                                /\ last_end_time' = Latest(ts, last_end_time)
                           ELSE UNCHANGED <<first_end_time, last_end_time>>

_parse_end_query_recount(l) == RecordEnd(l)

\* A handler that counts the end of a started query only.
_parse_end_query_started_only(l) ==
    IF l.END.query_id \in finished_query_ids \/ l.END.query_id \notin new_query_ids
    THEN /\ outcome' = "end_dup"
         /\ UNCHANGED <<pc, raised, parser_state, history>>
    ELSE RecordEnd(l)

_parse_end_query(l) ==
    IF l.END.query_id \in finished_query_ids
    THEN /\ outcome' = "end_dup"
         /\ UNCHANGED <<pc, raised, parser_state, history>>
    ELSE RecordEnd(l)

\* for line in f: the next line of the file
ReadLine(l) ==
    /\ pc = "parse"
    /\ nlines < MaxLines
    /\ nlines' = nlines + 1
    /\ line' = l

ParseConnection(l) == ReadLine(l) /\ Dispatch(l) = "conn" /\ _parse_connection(l)
ParseNewQuery(l) == ReadLine(l) /\ Dispatch(l) = "nq" /\ _parse_new_query(l)
ParseEndQuery(l) == ReadLine(l) /\ Dispatch(l) = "end" /\ _parse_end_query(l)
\* no handler returned True: the line is dropped
SkipLine(l) ==
    /\ ReadLine(l)
    /\ Dispatch(l) = "none"
    /\ outcome' = "skip"
    /\ UNCHANGED <<pc, raised, parser_state, history>>

----------------------------------------------------------------------------
(* Parser: the derived metrics.  A float quotient n / d is the pair        *)
(* <<n, d>>, compared with SameRatio.                                      *)

SameRatio(x, y) == x[1] * y[2] = y[1] * x[2]

\* A choice of the last of the largest counts.
most_popular_request_last ==
    IF request_freq = <<>> THEN <<>>
    ELSE LET best == Max({request_freq[i].count : i \in 1..Len(request_freq)})
             i == Max({j \in 1..Len(request_freq) : request_freq[j].count = best})
         IN  request_freq[i].text

\* max(request_freq.items(), key=count): the first of the largest counts;
\* <<>> is None.
most_popular_request ==
    IF request_freq = <<>> THEN <<>>
    ELSE LET best == Max({request_freq[i].count : i \in 1..Len(request_freq)})
             i == Min({j \in 1..Len(request_freq) : request_freq[j].count = best})
         IN  request_freq[i].text

\* An average without the test for no started query.
average_words_unguarded == <<total_words, Cardinality(new_query_ids)>>

average_words ==
    LET n == Cardinality(new_query_ids)
    IN  IF n # 0 THEN <<total_words, n>> ELSE <<0, 1>>

average_times ==
    LET c == Cardinality(finished_query_ids)
    IN  IF c = 0 THEN <<(<<0, 1>>), (<<0, 1>>)>>
        ELSE <<(<<total_time_working_ms, c>>), (<<total_time_with_waiting_ms, c>>)>>

max_times == <<max_handling_time_working_ms, max_handling_time_with_waiting_ms>>

\* A rate without the fallback for an empty span.
rps_no_fallback ==
    LET c == Cardinality(finished_query_ids)
    IN  IF c = 0 \/ first_end_time = NoTime \/ last_end_time = NoTime THEN <<0, 1>>
        ELSE <<c, last_end_time - first_end_time>>

rps ==
    LET c == Cardinality(finished_query_ids)
    IN  IF c = 0 \/ first_end_time = NoTime \/ last_end_time = NoTime THEN <<0, 1>>
        ELSE LET span == last_end_time - first_end_time
             IN  IF span <= 0 THEN <<c, 1>> ELSE <<c, span>>

----------------------------------------------------------------------------
(* main.                                                                   *)

\* Parser(file); parser.parse() opens the file
Open ==
    /\ pc = "start"
    /\ pc' = "parse"
    /\ UNCHANGED <<raised, nlines, line, outcome, parser_state, history>>

\* the path does not exist or cannot be opened: open() raises
OpenFails ==
    /\ pc = "start"
    /\ pc' = "nofile"
    /\ raised' = "open"
    /\ UNCHANGED <<nlines, line, outcome, parser_state, history>>

\* the file is exhausted: parse returns, and its loop variable is gone
EndOfFile ==
    /\ pc = "parse"
    /\ pc' = "report"
    /\ line' = NoLine
    /\ outcome' = ""
    /\ UNCHANGED <<raised, nlines, parser_state, history>>

\* invalid_split[3] of the loop over parser.invalid_ips
HasFourthSegment(ip) == Len(Split(ip, ".")) >= 4

\* the addresses: the valid set, then the prefixes and the ports of the
\* invalid tokens
ReportIps ==
    /\ pc = "report"
    /\ IF \A ip \in invalid_ips : HasFourthSegment(ip)
       THEN pc' = "metrics" /\ UNCHANGED raised
       ELSE pc' = "crashed" /\ raised' = "IndexError"
    /\ UNCHANGED <<nlines, line, outcome, parser_state, history>>

\* A report whose most_popular_request empties the table it reads.
ReportMetrics_consuming ==
    /\ pc = "metrics"
    /\ pc' = "done"
    /\ request_freq' = <<>>
    /\ UNCHANGED <<raised, nlines, line, outcome, conn_state, end_state, history,
                   total_words, new_query_ids, query_to_ip>>

\* requests, words, times and rps are printed: main returns
ReportMetrics ==
    /\ pc = "metrics"
    /\ IF most_popular_request # <<>> =>
              \E i \in 1..Len(request_freq) : request_freq[i].text = most_popular_request
       THEN pc' = "done" /\ UNCHANGED raised
       ELSE pc' = "crashed" /\ raised' = "KeyError"
    /\ UNCHANGED <<nlines, line, outcome, parser_state, history>>

Next ==
    \/ Open
    \/ OpenFails
    \/ \E l \in Lines : ParseConnection(l)
    \/ \E l \in Lines : ParseNewQuery(l)
    \/ \E l \in Lines : ParseEndQuery(l)
    \/ \E l \in Lines : SkipLine(l)
    \/ EndOfFile
    \/ ReportIps
    \/ ReportMetrics

Spec == Init /\ [][Next]_vars

----------------------------------------------------------------------------
(* Properties.                                                             *)

\* This step read one line of the file and ran the parse loop body on it.
LineStep == nlines' = nlines + 1

\* The sum of the counts of the request-frequency table.
RECURSIVE CountSum(_)
CountSum(freq) ==
    IF freq = <<>> THEN 0 ELSE freq[1].count + CountSum(Tail(freq))

\* C1: a query-start line whose numeric id is already in the started set
\* leaves the frequency table, the word total, the started set and the
\* query-to-address links unchanged, whatever text or connection it carries;
\* a first-seen one adds its id and at most one count, so each id
\* contributes once.
C1_StartIdempotent ==
    [][ LineStep /\ Dispatch(line') = "nq" =>
          IF line'.NEW_QUERY.query_id \in new_query_ids
          THEN UNCHANGED start_state
          ELSE /\ new_query_ids' = new_query_ids \cup {line'.NEW_QUERY.query_id}
               /\ CountSum(request_freq') =
                    CountSum(request_freq)
                    + (IF Strip(line'.NEW_QUERY.text_decoded) = <<>> THEN 0 ELSE 1) ]_vars

\* A repeated start line with another text or connection than the first.
C1_Witness ==
    /\ outcome = "nq_dup"
    /\ \E i \in 1..Len(first_start) :
          /\ first_start[i].NEW_QUERY.query_id = line.NEW_QUERY.query_id
          /\ first_start[i].NEW_QUERY.text_decoded # line.NEW_QUERY.text_decoded
          /\ first_start[i].NEW_QUERY.conn_hex_id # line.NEW_QUERY.conn_hex_id
    /\ line.NEW_QUERY.conn_hex_id \in DOMAIN connections
    /\ request_freq # <<>>

\* C2: a query-end line whose numeric id is already in the finished set
\* leaves both sums, both maxima, the first and last completion timestamps
\* and the finished set unchanged; a first-seen one that is processed to
\* the end adds its id and its two durations once.
C2_EndIdempotent ==
    [][ LineStep /\ Dispatch(line') = "end" =>
          IF line'.END.query_id \in finished_query_ids
          THEN UNCHANGED end_state /\ pc' = pc
          ELSE /\ finished_query_ids' =
                    finished_query_ids \cup {line'.END.query_id}
               /\ pc' = "parse" =>
                    /\ total_time_with_waiting_ms' =
                         total_time_with_waiting_ms + ParseFloat(line'.END.time_total_ms)
                    /\ total_time_working_ms' =
                         total_time_working_ms + ParseFloat(line'.END.time_working_ms) ]_vars

\* A repeated end line with larger durations and a later timestamp than the
\* first one of its id.
C2_Witness ==
    /\ outcome = "end_dup"
    /\ line.END.query_id \in DOMAIN first_end
    /\ ParseFloat(line.END.time_total_ms) > max_handling_time_with_waiting_ms
    /\ line.INTERNAL_TIMESTAMP.matched
    /\ last_end_time # NoTime
    /\ Strptime(line.INTERNAL_TIMESTAMP) > last_end_time

\* The cue of some category is in the line and its pattern does not match.
CueWithoutMatch(l) ==
    \/ GIncoming \in l.guards /\ ~l.CONNECTION.matched
    \/ GOnConn \in l.guards /\ ~l.NEW_QUERY.matched
    \/ GEndQuery \in l.guards /\ ~l.END.matched

C4_BadMsIsSkipped ==
    [][ ( /\ LineStep
          /\ Dispatch(line') = "end"
          /\ \/ ParseFloat(line'.END.time_total_ms) = ValueError
             \/ ParseFloat(line'.END.time_working_ms) = ValueError )
        => pc' = "parse" /\ UNCHANGED end_state ]_vars

\* parse has returned to main.
ParseReturned ==
    \/ pc \in {"report", "metrics", "done"}
    \/ pc = "crashed" /\ raised \in {"IndexError", "KeyError"}

\* C5 (as stated, for the runs whose parse pass returned): main reaches its
\* end and prints every metric, whatever the invalid-address set holds.
C5_MainPrintsAll == ParseReturned => pc # "crashed"

\* The tokens of the input that are a valid IPv4 address with an optional
\* port, each with its address written out, and the tokens that are not.
AddrOfTokIpPort == <<"1", ".", "2", ".", "3", ".", "4">>
ExpectedAddress == (TokIpPort :> AddrOfTokIpPort) @@ (TokIp :> TokIp)
ValidAddresses == {ExpectedAddress[t] : t \in DOMAIN ExpectedAddress}
InvalidTokens == {TokBadOctet, TokHost}

\* After a connection-open line with a valid address, the address without
\* the port is in the valid set and the table maps the connection to it.
ValidConnRegistered ==
    LineStep /\ Dispatch(line') = "conn"
             /\ line'.CONNECTION.raw_ip_port \in DOMAIN ExpectedAddress =>
        LET addr == ExpectedAddress[line'.CONNECTION.raw_ip_port]
            id == line'.CONNECTION.conn_hex_id
        IN  /\ addr \in all_ips'
            /\ id \in DOMAIN connections'
            /\ connections'[id] = addr

\* The query of a start line on a connection registered with a valid
\* address is linked to that address after the line.
StartLinked(l) ==
    LET id == l.NEW_QUERY.conn_hex_id
        q == l.NEW_QUERY.query_id
    IN  id \in DOMAIN connections /\ connections[id] \in ValidAddresses =>
            /\ q \in DOMAIN query_to_ip'
            /\ query_to_ip'[q] = connections[id]

\* C6 (as stated): a valid connection-open line registers its address, and
\* any query-start line for that connection processed later is linked to it.
C6_AnyLaterStartLinked ==
    [][ /\ ValidConnRegistered
        /\ LineStep /\ Dispatch(line') = "nq" => StartLinked(line') ]_vars

\* C6 (amended): a valid connection-open line registers its address, and a
\* later query-start line for that connection whose numeric id has not been
\* started before, processed while the table still holds that address, is
\* linked to it.
C6_FirstStartLinked ==
    [][ /\ ValidConnRegistered
        /\ LineStep /\ Dispatch(line') = "nq"
                    /\ line'.NEW_QUERY.query_id \notin new_query_ids =>
              StartLinked(line') ]_vars

\* A first-seen start line has been linked to the address, without its port,
\* of a connection opened with address and port.
C6_Witness ==
    /\ outcome = "nq_first"
    /\ line.NEW_QUERY.conn_hex_id \in DOMAIN connections
    /\ connections[line.NEW_QUERY.conn_hex_id] = AddrOfTokIpPort
    /\ AddrOfTokIpPort \in all_ips
    /\ line.NEW_QUERY.query_id \in DOMAIN query_to_ip
    /\ query_to_ip[line.NEW_QUERY.query_id] = AddrOfTokIpPort

\* C7: after a connection-open line whose token fails address validation,
\* the whole token, port included, is in the invalid set, the table maps
\* the connection to that token, and the valid set is as before.
C7_InvalidTokenKept ==
    [][ LineStep /\ Dispatch(line') = "conn"
                 /\ line'.CONNECTION.raw_ip_port \in InvalidTokens =>
          LET raw == line'.CONNECTION.raw_ip_port
              id == line'.CONNECTION.conn_hex_id
          IN  /\ raw \in invalid_ips'
              /\ id \in DOMAIN connections'
              /\ connections'[id] = raw
              /\ all_ips' = all_ips ]_vars

\* A token with an out-of-range octet and a port has been stored whole.
C7_Witness ==
    /\ outcome = "conn_invalid"
    /\ line.CONNECTION.raw_ip_port = TokBadOctet
    /\ TokBadOctet \in invalid_ips
    /\ connections[line.CONNECTION.conn_hex_id] = TokBadOctet

\* The parse pass has not been cut short by an exception of an end line.
ParseIntact == raised \notin {"float", "strptime"}

\* The completion timestamps captured on the first-seen end lines.
CapturedStamps ==
    {Strptime(first_end[q].INTERNAL_TIMESTAMP) :
        q \in {r \in DOMAIN first_end : first_end[r].INTERNAL_TIMESTAMP.matched}}

\* C8: rps is 0 when no query finished or no timestamp was captured;
\* otherwise, with c the number of distinct finished ids and span the
\* seconds between the earliest and the latest captured timestamp, it is c
\* when span <= 0 and c / span when span > 0.
C8_Rps ==
    ParseIntact =>
        LET c == Cardinality(DOMAIN first_end)
        IN  IF c = 0 \/ CapturedStamps = {} THEN rps = <<0, 1>>
            ELSE LET span == Max(CapturedStamps) - Min(CapturedStamps)
                 IN  IF span <= 0 THEN rps = <<c, 1>>
                     ELSE rps[2] # 0 /\ SameRatio(rps, <<c, span>>)

\* Two queries finished ten seconds apart, the later one read first:
\* rps is 2 / 10.
C8_Witness ==
    /\ ParseIntact
    /\ outcome = "end_first"
    /\ Cardinality(finished_query_ids) = 2
    /\ line.INTERNAL_TIMESTAMP = StampA
    /\ last_end_time - first_end_time = 10
    /\ rps = <<2, 10>>

\* A first-seen end line without a timestamp, processed to the end.
NoStampEnd(l) ==
    /\ Dispatch(l) = "end"
    /\ l.END.query_id \notin finished_query_ids
    /\ ~l.INTERNAL_TIMESTAMP.matched
    /\ ParseFloat(l.END.time_total_ms) # ValueError
    /\ ParseFloat(l.END.time_working_ms) # ValueError

\* What such a line does to the duration aggregates and the bounds.
NoStampEndCounted(l) ==
    /\ finished_query_ids' = finished_query_ids \cup {l.END.query_id}
    /\ total_time_with_waiting_ms' =
           total_time_with_waiting_ms + ParseFloat(l.END.time_total_ms)
    /\ total_time_working_ms' =
           total_time_working_ms + ParseFloat(l.END.time_working_ms)
    /\ max_handling_time_with_waiting_ms' >= ParseFloat(l.END.time_total_ms)
    /\ max_handling_time_with_waiting_ms' >= max_handling_time_with_waiting_ms
    /\ max_handling_time_working_ms' >= ParseFloat(l.END.time_working_ms)
    /\ max_handling_time_working_ms' >= max_handling_time_working_ms
    /\ UNCHANGED <<first_end_time, last_end_time>>

\* C9 (as stated): a first-seen end line without a timestamp counts toward
\* the sums, the maxima and the finished set but not toward the timestamp
\* bounds nor toward throughput: rps is what it was without the line.
C9_NoStampKeepsRps ==
    [][ LineStep /\ NoStampEnd(line') =>
          NoStampEndCounted(line') /\ SameRatio(rps', rps) ]_vars

\* C9 (amended): such a line counts toward the sums, the maxima and the
\* finished set and leaves the timestamp bounds alone, but it is counted in
\* the finished count that rps divides: rps stays 0 while no timestamp has
\* been captured, and otherwise grows from c over the span (or c) to c + 1
\* over the same span (or c + 1).
C9_NoStampCountsInRps ==
    [][ LineStep /\ NoStampEnd(line') =>
          /\ NoStampEndCounted(line')
          /\ IF first_end_time = NoTime
             THEN rps' = <<0, 1>> /\ rps = <<0, 1>>
             ELSE /\ rps'[1] = rps[1] + 1
                  /\ rps'[2] = rps[2]
                  /\ rps[1] = Cardinality(finished_query_ids) ]_vars

\* An end line without a timestamp has been counted after a timestamp was
\* captured: two finished queries, one instant, rps 2.
C9_Witness ==
    /\ outcome = "end_first"
    /\ ~line.INTERNAL_TIMESTAMP.matched
    /\ first_end_time # NoTime
    /\ first_end_time = last_end_time
    /\ Cardinality(finished_query_ids) = 2
    /\ rps = <<2, 1>>

\* The largest of a set of durations, 0 for none.
Largest(S) == IF S = {} THEN 0 ELSE Max(S)

\* C10: each component of max_times is the maximum of the working, resp.
\* total, milliseconds over the first-seen end line of every finished id,
\* and 0 when no query finished, in whatever order the lines arrived.
C10_MaxTimes ==
    raised # "float" =>
        /\ DOMAIN first_end = finished_query_ids
        /\ max_times[1] =
             Largest({ParseFloat(first_end[q].END.time_working_ms) : q \in DOMAIN first_end})
        /\ max_times[2] =
             Largest({ParseFloat(first_end[q].END.time_total_ms) : q \in DOMAIN first_end})

\* The line with the largest total was read before a smaller one, and the
\* largest working time came with the smaller total.
C10_Witness ==
    /\ outcome = "end_first"
    /\ Cardinality(finished_query_ids) = 2
    /\ ParseFloat(line.END.time_total_ms) = 100
    /\ max_times = <<25, 300>>

\* The trimmed texts of the first-seen start lines, in arrival order.
FirstTexts == [i \in 1..Len(first_start) |-> Strip(first_start[i].NEW_QUERY.text_decoded)]

\* C11: with no start and no end line handled, average_words is 0,
\* average_times is (0, 0), max_times is (0, 0), rps is 0 and
\* most_popular_request is None; None is also the answer whenever no
\* first-seen start line had a non-empty trimmed text, and only then.
C11_Defaults ==
    /\ first_start = <<>> /\ first_end = EmptyMap =>
          /\ average_words = <<0, 1>>
          /\ average_times = <<(<<0, 1>>), (<<0, 1>>)>>
          /\ max_times = <<0, 0>>
          /\ rps = <<0, 1>>
          /\ most_popular_request = <<>>
    /\ most_popular_request = <<>> <=>
          \A i \in 1..Len(FirstTexts) : FirstTexts[i] = <<>>

\* main has printed the metrics of a file of MaxLines lines none of which a
\* handler took.
C11_Witness ==
    /\ pc = "done"
    /\ nlines = MaxLines
    /\ first_start = <<>> /\ first_end = EmptyMap /\ connections = EmptyMap
    /\ most_popular_request = <<>>
    /\ average_words = <<0, 1>>

\* The words of a text: the non-empty pieces between blanks.
Words(text) == LET p == Split(text, " ") IN {i \in 1..Len(p) : p[i] # <<>>}

RECURSIVE WordsOfStarts(_)
WordsOfStarts(starts) ==
    IF starts = <<>> THEN 0
    ELSE Cardinality(Words(Head(starts).NEW_QUERY.text_decoded))
         + WordsOfStarts(Tail(starts))

Occurrences(t) == Cardinality({i \in 1..Len(FirstTexts) : FirstTexts[i] = t})
\* The arrival position of the first start line with text t.
FirstSeenAt(t) == Min({i \in 1..Len(FirstTexts) : FirstTexts[i] = t})

C14_MetricsPure ==
    [][ pc = "metrics" =>
          /\ UNCHANGED parser_state
          /\ most_popular_request' = most_popular_request
          /\ average_words' = average_words
          /\ average_times' = average_times
          /\ max_times' = max_times
          /\ rps' = rps ]_vars

\* The metrics have been read on a parser with requests, durations and
\* timestamps.
C14_Witness ==
    /\ pc = "done"
    /\ request_freq # <<>>
    /\ finished_query_ids # {}
    /\ first_end_time # NoTime
    /\ total_words > 0

\* What the table stores for a token: its address, or the token itself.
Resolution(t) == IF t \in DOMAIN ExpectedAddress THEN ExpectedAddress[t] ELSE t

\* C15: a connection-open line, for a new id or for one already in the
\* table, stores the resolution of its token under its id without an error
\* and leaves the other entries alone, and no other line changes the table:
\* the table maps each id to the resolution of the last such line.
C15_LastWriteWins ==
    [][ IF LineStep /\ Dispatch(line') = "conn"
        THEN LET id == line'.CONNECTION.conn_hex_id
             IN  /\ pc' = "parse"
                 /\ DOMAIN connections' = DOMAIN connections \cup {id}
                 /\ connections'[id] = Resolution(line'.CONNECTION.raw_ip_port)
                 /\ \A x \in DOMAIN connections \ {id} : connections'[x] = connections[x]
        ELSE UNCHANGED connections ]_vars

\* The only connection of the table was opened with one address and then
\* again with another one.
C15_Witness ==
    /\ outcome = "conn_valid"
    /\ DOMAIN connections = {"a"}
    /\ line.CONNECTION.conn_hex_id = "a"
    /\ connections["a"] = TokIp
    /\ all_ips = {AddrOfTokIpPort, TokIp}
    /\ invalid_ips = {}

\* C16 (as stated): once the table maps an id to a value it maps it to the
\* same value ever after, and no entry is removed.
C16_NeverMutated ==
    [][ \A id \in DOMAIN connections :
          id \in DOMAIN connections' /\ connections'[id] = connections[id] ]_vars

\* C16 (amended): no entry is ever removed, and the value of an entry
\* changes only when a later connection-open line for the same id is
\* processed.
C16_MutatedOnlyByReopen ==
    [][ \A id \in DOMAIN connections :
          /\ id \in DOMAIN connections'
          /\ connections'[id] # connections[id] =>
                /\ LineStep
                /\ outcome' \in {"conn_valid", "conn_invalid"}
                /\ line'.CONNECTION.conn_hex_id = id ]_vars

\* Two connections are in the table and the one opened by the last line had
\* been opened before with a token that failed validation.
C16_Witness ==
    /\ DOMAIN connections = {"a", "b"}
    /\ outcome = "conn_valid"
    /\ invalid_ips # {}
    /\ \A id \in DOMAIN connections : connections[id] \in all_ips

\* The link of query q, <<>> for none.
LinkOf(m, q) == IF q \in DOMAIN m THEN m[q] ELSE <<>>

\* C17: a first-seen start line is counted and links its query to what the
\* table holds for its connection at that moment, or to nothing when the
\* connection is not registered; the link of a started query is never
\* created or changed afterwards.
C17_LinkFixedAtStart ==
    [][ /\ ( LineStep /\ Dispatch(line') = "nq"
                      /\ line'.NEW_QUERY.query_id \notin new_query_ids ) =>
             LET q == line'.NEW_QUERY.query_id
                 c == line'.NEW_QUERY.conn_hex_id
             IN  /\ q \in new_query_ids'
                 /\ pc' = "parse"
                 /\ CountSum(request_freq') + total_words' >=
                        CountSum(request_freq) + total_words
                 /\ Strip(line'.NEW_QUERY.text_decoded) # <<>> =>
                        CountSum(request_freq') = CountSum(request_freq) + 1
                 /\ LinkOf(query_to_ip', q) =
                        (IF c \in DOMAIN connections THEN connections[c] ELSE <<>>)
        /\ \A q \in new_query_ids : LinkOf(query_to_ip', q) = LinkOf(query_to_ip, q) ]_vars

\* The connection of a started query without a link has been opened after
\* the start, and the query was started again on it.
C17_Witness ==
    /\ outcome = "nq_dup"
    /\ line.NEW_QUERY.query_id \notin DOMAIN query_to_ip
    /\ line.NEW_QUERY.conn_hex_id \in DOMAIN connections
    /\ first_start[1].NEW_QUERY.conn_hex_id = line.NEW_QUERY.conn_hex_id

\* C18: an end line changes no start aggregate and a first-seen one is
\* counted whether or not its id was ever started; a start line changes no
\* end aggregate.
C18_StartEndIndependent ==
    [][ /\ LineStep /\ Dispatch(line') = "end" =>
              /\ UNCHANGED start_state
              /\ line'.END.query_id \in finished_query_ids'
        /\ LineStep /\ Dispatch(line') = "nq" => UNCHANGED end_state ]_vars

\* The end of a query that never started has been counted, next to a
\* started query that has not ended.
C18_Witness ==
    /\ outcome = "end_first"
    /\ line.END.query_id \notin new_query_ids
    /\ new_query_ids # {}
    /\ new_query_ids \cap finished_query_ids = {}
    /\ total_time_with_waiting_ms > 0

\* C19: the first and the last completion timestamp are both unset or both
\* set; when set, the first is the earliest and the last the latest of the
\* timestamps of the first-seen end lines that carried one, so the first is
\* not later than the last.
C19_TimestampBounds ==
    ParseIntact =>
        /\ first_end_time = NoTime <=> last_end_time = NoTime
        /\ first_end_time = NoTime <=> CapturedStamps = {}
        /\ first_end_time # NoTime =>
              /\ first_end_time = Min(CapturedStamps)
              /\ last_end_time = Max(CapturedStamps)
              /\ first_end_time <= last_end_time

\* The later of two timestamps was read first, and a repeated end line
\* followed.
C19_Witness ==
    /\ nlines = MaxLines
    /\ outcome = "end_dup"
    /\ first_end_time = Strptime(StampA)
    /\ last_end_time = Strptime(StampB)
    /\ first_end[1].INTERNAL_TIMESTAMP = StampB
    /\ first_end[2].INTERNAL_TIMESTAMP = StampA
    /\ line.END.query_id = 1

\* The values of a map.
Values(m) == {m[x] : x \in DOMAIN m}

AddressSetsConsistent ==
    /\ all_ips \cap invalid_ips = {}
    /\ Values(connections) \subseteq all_ips \cup invalid_ips
    /\ DOMAIN query_to_ip \subseteq new_query_ids
    /\ Values(query_to_ip) \subseteq all_ips \cup invalid_ips

\* C20: the valid and the invalid address set are disjoint and only grow,
\* every value of the connection table is in exactly one of them, every key
\* of the query-to-address map is a started id and every value of that map
\* is in one of the two sets.
C20_AddressSets ==
    /\ []AddressSetsConsistent
    /\ [][all_ips \subseteq all_ips' /\ invalid_ips \subseteq invalid_ips']_vars

\* Both sets are non-empty and a query is linked to a token of the invalid
\* set whose connection has since been opened with a valid address.
C20_Witness ==
    /\ all_ips # {} /\ invalid_ips # {}
    /\ \E q \in DOMAIN query_to_ip :
          /\ query_to_ip[q] \in invalid_ips
          /\ query_to_ip[q] \notin Values(connections)

====
